---- MODULE Spec2Model ----
(***************************************************************************)
(* Model of src/report_functions.py: the CSV loader, the column            *)
(* classifier, the statistics report, the subplot grids, the heatmap and   *)
(* the report driver.  Every public function is one action; the functions  *)
(* themselves are operators computed the way the code computes them.       *)
(***************************************************************************)
EXTENDS Integers, Sequences, FiniteSets, TLC

\* ------------------------------------------------------------------ bounds
MaxColumns == 3
MaxRows == 2
MaxNumCols == 3

\* ------------------------------------------------------------- cell values
\* A cell is a tagged value: a finite number, NaN (pandas' missing value),
\* an infinite float, a text or a boolean.
Num(n) == [k |-> "num", v |-> n]
NaN == [k |-> "nan", v |-> 0]
Inf == [k |-> "inf", v |-> 0]
Text == [k |-> "str", v |-> 0]
Bool == [k |-> "bool", v |-> 1]

\* The dtypes pandas.read_csv infers for a column.
DTypes == {"int64", "float64", "object", "bool"}

ColumnNames == <<"age", "income", "city", "vip", "score", "zip">>

\* str.capitalize() on the column names in use.
Capitalize(name) ==
    CASE name = "age" -> "Age"
      [] name = "income" -> "Income"
      [] name = "city" -> "City"
      [] name = "vip" -> "Vip"
      [] name = "score" -> "Score"
      [] name = "zip" -> "Zip"

\* The value sequences a column of dtype d with r rows can hold after
\* read_csv, up to the order of the rows: int64 and bool columns have no
\* missing value; float64 columns hold finite numbers, NaN and inf; object
\* columns hold text and NaN, and at least one text (a column of empty
\* cells only is float64).
ColumnValues(d, r) ==
    CASE d = "int64" -> {[i \in 1..r |-> Num(10 * (r + 1 - i))]}
      [] d = "float64" ->
           {[i \in 1..r |-> IF i <= c[1] THEN NaN
                            ELSE IF i <= c[1] + c[2] THEN Inf
                            ELSE Num(r + 1 - i)] :
               c \in {x \in (0..r) \X (0..r) : x[1] + x[2] <= r}}
      [] d = "object" ->
           {[i \in 1..r |-> IF i <= m THEN NaN ELSE Text] : m \in 0..(r - 1)}
      [] d = "bool" -> {[i \in 1..r |-> Bool]}

\* The one value sequence of dtype d with r rows that has no missing and no
\* infinite value.
PlainValues(d, r) ==
    CASE d = "int64" -> [i \in 1..r |-> Num(10 * (r + 1 - i))]
      [] d = "float64" -> [i \in 1..r |-> Num(r + 1 - i)]
      [] d = "object" -> [i \in 1..r |-> Text]
      [] d = "bool" -> [i \in 1..r |-> Bool]

\* A file with a header and no rows is read as object columns only.
Columns(r) ==
    UNION {{[dtype |-> d, vals |-> vs] : vs \in ColumnValues(d, r)} :
              d \in IF r = 0 THEN {"object"} ELSE DTypes}

PlainColumns(r) ==
    {[dtype |-> d, vals |-> PlainValues(d, r)] :
        d \in IF r = 0 THEN {"object"} ELSE DTypes}

\* A table (DataFrame): a row count and a non-empty sequence of columns that
\* all have that many rows; column j is named ColumnNames[j].
TablesOf(r, n, columns) ==
    {[nrows |-> r, cols |-> [j \in 1..n |-> [name |-> ColumnNames[j],
                                               dtype |-> cs[j].dtype,
                                               vals |-> cs[j].vals]]] :
        cs \in [1..n -> columns]}

\* The tables of the model: one or two columns of any values, or up to
\* MaxColumns columns of plain values in one row.
Tables ==
    UNION {UNION {TablesOf(r, n, Columns(r)) : n \in 1..2} : r \in 0..MaxRows}
    \cup UNION {TablesOf(1, n, PlainColumns(1)) : n \in 1..MaxColumns}

Paths == {"data.csv", "missing.csv"}
NumColsRange == (0 - 2)..MaxNumCols
PlotTypes == {"boxplot", "histplot"}

VARIABLES
    files,          \* the file system: path -> table parsed from that CSV
    use_inf_as_na,  \* pandas option mode.use_inf_as_na (process-wide)
    call,           \* the last call: function and arguments
    err,            \* the exception the last call raised, or "none"
    events,         \* the side effects of the last call, in order
    ret,            \* the value the last call returned
    reports         \* every report stats_report returned so far

vars == <<files, use_inf_as_na, call, err, events, ret, reports>>

\* --------------------------------------------------------------- helpers
RECURSIVE SeqSum(_)
SeqSum(s) == IF s = <<>> THEN 0 ELSE Head(s) + SeqSum(Tail(s))

\* Python's a // b (floor division) for b # 0.
FloorDiv(a, b) == IF b > 0 THEN a \div b ELSE (0 - a) \div (0 - b)

Event(e, kind, column, row, col) ==
    [e |-> e, kind |-> kind, column |-> column, row |-> row, col |-> col]

NoTable == [nrows |-> 0, cols |-> <<>>]
NoReport == [fields |-> <<>>, rows |-> <<>>]
NoRet == [type |-> "None", table |-> NoTable, report |-> NoReport]

\* --------------------------------------------------------------- Loader
data_input(csv) ==
    IF csv \in DOMAIN files
    THEN [err |-> "none", data |-> files[csv]]
    ELSE [err |-> "FileNotFoundError", data |-> NoTable]

\* ----------------------------------------------------- Column classifier
IsNumericDtype(d) == d = "int64" \/ d = "float64"

numeric_data(data) ==
    LET isNum(c) == IsNumericDtype(c.dtype)
    IN [nrows |-> data.nrows, cols |-> SelectSeq(data.cols, isNum)]

NotNumericDtype_or(d) == d # "int64" \/ d # "float64"

NotNumericDtype(d) == d # "int64" /\ d # "float64"

non_numeric_data(data) ==
    LET notNum(c) == NotNumericDtype(c.dtype)
    IN [nrows |-> data.nrows, cols |-> SelectSeq(data.cols, notNum)]

\* ------------------------------------------------------- Chart renderer
\* The value plt.subplots(num_rows, num_cols) returns with squeeze=True: one
\* Axes object for a 1x1 grid, a 1-D array for a single row or a single
\* column, a 2-D array otherwise.
AxesShape(num_rows, num_cols) ==
    IF num_rows = 1 /\ num_cols = 1 THEN "scalar"
    ELSE IF num_rows = 1 \/ num_cols = 1 THEN "1d"
    ELSE "2d"

\* The outcome of evaluating axes[row, col].
AxesIndexError(num_rows, num_cols, row, col) ==
    CASE AxesShape(num_rows, num_cols) = "scalar" -> "TypeError"
      [] AxesShape(num_rows, num_cols) = "1d" -> "IndexError"
      [] OTHER -> IF row < num_rows /\ col < num_cols THEN "none" ELSE "IndexError"

GridRows_floor(num_plots, num_cols) == FloorDiv(num_plots, num_cols)

GridRows(num_plots, num_cols) == FloorDiv(num_plots + num_cols - 1, num_cols)

CellRow(i, num_cols) == i \div num_cols

CellCol(i, num_cols) == i % num_cols

\* The plotting loop from index i on: one chart and one title per numeric
\* column, stopping at the first axes[row, col] that raises.
RECURSIVE PlotLoop(_, _, _, _, _)
PlotLoop(numeric_columns, i, plot_type, num_rows, num_cols) ==
    IF i >= Len(numeric_columns) THEN [err |-> "none", events |-> <<>>]
    ELSE LET row == CellRow(i, num_cols)
             col == CellCol(i, num_cols)
             column == numeric_columns[i + 1].name
             e == AxesIndexError(num_rows, num_cols, row, col)
         IN IF e # "none" THEN [err |-> e, events |-> <<>>]
            ELSE LET rest == PlotLoop(numeric_columns, i + 1, plot_type,
                                      num_rows, num_cols)
                 IN [err |-> rest.err,
                     events |-> <<Event("plot", plot_type, column, row, col),
                                  Event("title", plot_type, Capitalize(column), row, col)>>
                                \o rest.events]

\* The loop that turns the unused cells off, from index i on.
RECURSIVE HideLoop(_, _, _, _)
HideLoop(i, plot_type, num_rows, num_cols) ==
    IF i >= num_rows * num_cols THEN [err |-> "none", events |-> <<>>]
    ELSE LET row == CellRow(i, num_cols)
             col == CellCol(i, num_cols)
             e == AxesIndexError(num_rows, num_cols, row, col)
         IN IF e # "none" THEN [err |-> e, events |-> <<>>]
            ELSE LET rest == HideLoop(i + 1, plot_type, num_rows, num_cols)
                 IN [err |-> rest.err,
                     events |-> <<Event("off", plot_type, "", row, col)>> \o rest.events]

RenderGrid(numeric_columns, plot_type, num_rows, num_cols) ==
    LET fig == <<Event("figure", plot_type, "", num_rows, num_cols)>>
        plots == PlotLoop(numeric_columns, 0, plot_type, num_rows, num_cols)
        hides == HideLoop(Len(numeric_columns), plot_type, num_rows, num_cols)
    IN IF plots.err # "none"
       THEN [err |-> plots.err, events |-> fig \o plots.events]
       ELSE IF hides.err # "none"
       THEN [err |-> hides.err,
             events |-> fig \o plots.events
                        \o <<Event("suptitle", plot_type, "", 0, 0)>> \o hides.events]
       ELSE [err |-> "none",
             events |-> fig \o plots.events
                        \o <<Event("suptitle", plot_type, "", 0, 0)>> \o hides.events
                        \o <<Event("show", plot_type, "", 0, 0)>>]

\* The numeric columns create_subplots selects, by its own test of the dtypes.
numeric_columns(data) ==
    LET isNum(c) == c.dtype = "int64" \/ c.dtype = "float64"
    IN SelectSeq(data.cols, isNum)

\* create_subplots: no check of num_cols; the division raises for 0, the
\* figure constructor rejects a negative height, and the grid constructor
\* rejects a row or column count below 1 after the figure exists.
create_subplots(data, plot_type, num_cols) ==
    LET num_plots == Len(numeric_columns(data))
    IN IF num_cols = 0 THEN [err |-> "ZeroDivisionError", events |-> <<>>]
       ELSE LET num_rows == GridRows(num_plots, num_cols)
            IN IF num_rows * 5 < 0 THEN [err |-> "ValueError", events |-> <<>>]
               ELSE IF num_rows <= 0 \/ num_cols <= 0
               THEN [err |-> "ValueError",
                     events |-> <<Event("figure", plot_type, "", num_rows, num_cols)>>]
               ELSE RenderGrid(numeric_columns(data), plot_type, num_rows, num_cols)

\* create_heatmap: the correlation matrix is labelled by the numeric columns;
\* sns.heatmap raises on an empty matrix, after plt.figure.  The event's row
\* and col are the matrix's shape, its labels are in the "label" events.
RECURSIVE Labels(_)
Labels(cols) ==
    IF cols = <<>> THEN <<>>
    ELSE <<Event("label", "heatmap", Head(cols).name, 0, 0)>> \o Labels(Tail(cols))

create_heatmap(data0) ==
    LET data == numeric_data(data0)
        n == Len(data.cols)
        fig == <<Event("figure", "heatmap", "", 1, 1)>>
    IN IF n = 0 THEN [err |-> "ValueError", events |-> fig]
       ELSE [err |-> "none",
             events |-> fig \o <<Event("heatmap", "heatmap", "", n, n)>>
                        \o Labels(data.cols)
                        \o <<Event("title", "heatmap", "Correlation Heatmap", 0, 0),
                             Event("show", "heatmap", "", 0, 0)>>]

\* ---------------------------------------------------------- Report driver
\* The driver with the two grids in the other order.
initial_analysis_swapped(csv, num_cols) ==
    LET loaded == data_input(csv)
        data == loaded.data
        read == <<Event("read_csv", "load", csv, 0, 0)>>
        pr == <<Event("print", "", "", 0, 0)>>
        box == create_subplots(data, "boxplot", num_cols)
        hist == create_subplots(data, "histplot", num_cols)
        heat == create_heatmap(data)
    IN IF loaded.err # "none" THEN [err |-> loaded.err, events |-> read]
       ELSE IF hist.err # "none"
       THEN [err |-> hist.err, events |-> read \o pr \o hist.events]
       ELSE IF box.err # "none"
       THEN [err |-> box.err,
             events |-> read \o pr \o hist.events \o pr \o box.events]
       ELSE [err |-> heat.err,
             events |-> read \o pr \o hist.events \o pr \o box.events
                        \o pr \o heat.events]

\* initial_analysis after set_option: the stages in order, each one only if
\* the one before returned.
initial_analysis(csv, num_cols) ==
    LET loaded == data_input(csv)
        data == loaded.data
        read == <<Event("read_csv", "load", csv, 0, 0)>>
        pr == <<Event("print", "", "", 0, 0)>>
        box == create_subplots(data, "boxplot", num_cols)
        hist == create_subplots(data, "histplot", num_cols)
        heat == create_heatmap(data)
    IN IF loaded.err # "none" THEN [err |-> loaded.err, events |-> read]
       ELSE IF box.err # "none"
       THEN [err |-> box.err, events |-> read \o pr \o box.events]
       ELSE IF hist.err # "none"
       THEN [err |-> hist.err,
             events |-> read \o pr \o box.events \o pr \o hist.events]
       ELSE [err |-> heat.err,
             events |-> read \o pr \o box.events \o pr \o hist.events
                        \o pr \o heat.events]

\* --------------------------------------------------- Statistics aggregator
\* A statistic is nan, inf, the fraction n/d ("num"), the square root of the
\* fraction n/d ("sqrt"), or a text or boolean value ("str", "bool").
SVal(k, n, d) == [k |-> k, n |-> n, d |-> d]
SNaN == SVal("nan", 0, 1)
SInf == SVal("inf", 0, 1)

\* pandas.isna under the option mode.use_inf_as_na.
isna(v, opt) == v.k = "nan" \/ (opt /\ v.k = "inf")

\* The values of a column statistics are computed on: the non-missing ones.
Sample(vals, opt) ==
    LET present(v) == ~isna(v, opt)
    IN SelectSeq(vals, present)

CellLeq(a, b) == b.k = "inf" \/ (a.k = "num" /\ b.k = "num" /\ a.v <= b.v)

RECURSIVE Insert(_, _)
Insert(v, s) ==
    IF s = <<>> THEN <<v>>
    ELSE IF CellLeq(v, Head(s)) THEN <<v>> \o s
    ELSE <<Head(s)>> \o Insert(v, Tail(s))

RECURSIVE Sorted(_)
Sorted(s) == IF s = <<>> THEN <<>> ELSE Insert(Head(s), Sorted(Tail(s)))

HasInf(s) == \E i \in 1..Len(s) : s[i].k = "inf"

Values(s) == [i \in 1..Len(s) |-> s[i].v]

Squares(s) == [i \in 1..Len(s) |-> s[i].v * s[i].v]

Mean(s) ==
    IF s = <<>> THEN SNaN
    ELSE IF HasInf(s) THEN SInf
    ELSE SVal("num", SeqSum(Values(s)), Len(s))

\* Sample standard deviation (ddof = 1): sqrt((c*sum(x^2) - sum(x)^2) / (c*(c-1))).
Std(s) ==
    LET c == Len(s)
        sm == SeqSum(Values(s))
    IN IF c <= 1 \/ HasInf(s) THEN SNaN
       ELSE SVal("sqrt", c * SeqSum(Squares(s)) - sm * sm, c * (c - 1))

Min(s) ==
    IF s = <<>> THEN SNaN
    ELSE LET a == Sorted(s)[1]
         IN IF a.k = "inf" THEN SInf ELSE SVal("num", a.v, 1)

Max(s) ==
    IF s = <<>> THEN SNaN
    ELSE LET b == Sorted(s)[Len(s)]
         IN IF b.k = "inf" THEN SInf ELSE SVal("num", b.v, 1)

\* The p-th quartile by linear interpolation between the two neighbours a, b
\* of position (c-1)*p/4, at t = r/4: a + (b-a)*t for t < 1/2 and
\* b - (b-a)*(1-t) from 1/2 on, in IEEE arithmetic (inf*0 and inf-inf are nan).
Quartile(s, p) ==
    IF s = <<>> THEN SNaN
    ELSE LET c == Len(s)
             srt == Sorted(s)
             k == ((c - 1) * p) \div 4
             r == ((c - 1) * p) % 4
             a == srt[k + 1]
             b == srt[IF k + 2 <= c THEN k + 2 ELSE c]
         IN IF a.k = "inf" THEN SNaN
            ELSE IF b.k = "inf" THEN (IF r = 1 THEN SInf ELSE SNaN)
            ELSE SVal("num", 4 * a.v + r * (b.v - a.v), 4)

NumericFields == <<"mean", "std", "min", "25%", "50%", "75%", "max">>
ObjectFields == <<"unique", "top", "freq">>

\* One row of DataFrame.describe() for a numeric column, count dropped.
DescribeNumeric(vals, opt) ==
    LET s == Sample(vals, opt)
    IN [f \in {NumericFields[i] : i \in 1..Len(NumericFields)} |->
          CASE f = "mean" -> Mean(s)
            [] f = "std" -> Std(s)
            [] f = "min" -> Min(s)
            [] f = "25%" -> Quartile(s, 1)
            [] f = "50%" -> Quartile(s, 2)
            [] f = "75%" -> Quartile(s, 3)
            [] f = "max" -> Max(s)]

Occurrences(s, v) == Cardinality({i \in 1..Len(s) : s[i] = v})

\* One row of DataFrame.describe() for a non-numeric column, count dropped:
\* the number of distinct values, a most frequent value and its frequency.
DescribeObject(vals, opt) ==
    LET s == Sample(vals, opt)
        distinct == {s[i] : i \in 1..Len(s)}
        top == CHOOSE v \in distinct :
                   \A w \in distinct : Occurrences(s, w) <= Occurrences(s, v)
    IN [f \in {ObjectFields[i] : i \in 1..Len(ObjectFields)} |->
          CASE f = "unique" -> SVal("num", Cardinality(distinct), 1)
            [] f = "top" -> IF s = <<>> THEN SNaN ELSE SVal(top.k, top.v, 1)
            [] f = "freq" -> IF s = <<>> THEN SNaN
                             ELSE SVal("num", Occurrences(s, top), 1)]

\* The columns DataFrame.describe() describes: the numeric ones (np.number,
\* which leaves bool out) or, when there is none, all of them.
NumberColumns(data) ==
    LET isNumber(c) == c.dtype \in {"int64", "float64"}
    IN SelectSeq(data.cols, isNumber)

data_describe(data, opt) ==
    IF NumberColumns(data) # <<>>
    THEN [fields |-> NumericFields,
          rows |-> [j \in 1..Len(NumberColumns(data)) |->
                      [name |-> NumberColumns(data)[j].name,
                       stats |-> DescribeNumeric(NumberColumns(data)[j].vals, opt)]]]
    ELSE [fields |-> ObjectFields,
          rows |-> [j \in 1..Len(data.cols) |->
                      [name |-> data.cols[j].name,
                       stats |-> DescribeObject(data.cols[j].vals, opt)]]]

data_isnull(data, opt) ==
    [j \in 1..Len(data.cols) |->
        Cardinality({i \in 1..data.nrows : isna(data.cols[j].vals[i], opt)})]

data_type(data) == [j \in 1..Len(data.cols) |-> data.cols[j].dtype]

data_count_nonnull(data) ==
    [j \in 1..Len(data.cols) |->
        Cardinality({i \in 1..data.nrows : data.cols[j].vals[i].k # "nan"})]

data_count(data) == [j \in 1..Len(data.cols) |-> data.nrows]

\* pd.merge(df1, df2, left_index=True, right_index=True, how='left'): every
\* row of df1 in df1's order, with df2's fields of the row of the same name,
\* nan where df2 has no such row.
merge_left(df1, df2) ==
    LET names == {df2.fields[i] : i \in 1..Len(df2.fields)}
        match(nm) == {j \in 1..Len(df2.rows) : df2.rows[j].name = nm}
        stats(nm) == IF match(nm) = {} THEN [f \in names |-> SNaN]
                     ELSE df2.rows[CHOOSE j \in match(nm) : TRUE].stats
    IN [fields |-> df1.fields \o df2.fields,
        rows |-> [j \in 1..Len(df1.rows) |->
                    [name |-> df1.rows[j].name,
                     entry_count |-> df1.rows[j].entry_count,
                     data_type |-> df1.rows[j].data_type,
                     null_count |-> df1.rows[j].null_count,
                     stats |-> stats(df1.rows[j].name)]]]

stats_report(csv, opt) ==
    LET loaded == data_input(csv)
        data == loaded.data
        df1 == [fields |-> <<"entry_count", "data_type", "null_count">>,
                rows |-> [j \in 1..Len(data.cols) |->
                            [name |-> data.cols[j].name,
                             entry_count |-> data_count(data)[j],
                             data_type |-> data_type(data)[j],
                             null_count |-> data_isnull(data, opt)[j]]]]
        df2 == data_describe(data, opt)
    IN IF loaded.err # "none" THEN [err |-> loaded.err, report |-> NoReport]
       ELSE [err |-> "none", report |-> merge_left(df1, df2)]

\* ------------------------------------------------------------ the program
Call(op, csv, plot_type, num_cols) ==
    [op |-> op, csv |-> csv, plot_type |-> plot_type, num_cols |-> num_cols]

Init ==
    /\ files \in [{"data.csv"} -> Tables]
    /\ use_inf_as_na = FALSE
    /\ call = Call("none", "", "", 0)
    /\ err = "none"
    /\ events = <<>>
    /\ ret = NoRet
    /\ reports = {}

\* numeric_data(data) on the table loaded from csv.
NumericData(csv) ==
    /\ csv \in DOMAIN files
    /\ call' = Call("numeric_data", csv, "", 0)
    /\ err' = "none"
    /\ events' = <<>>
    /\ ret' = [type |-> "DataFrame", table |-> numeric_data(files[csv]),
               report |-> NoReport]
    /\ UNCHANGED <<files, use_inf_as_na, reports>>

\* non_numeric_data(data) on the table loaded from csv.
NonNumericData(csv) ==
    /\ csv \in DOMAIN files
    /\ call' = Call("non_numeric_data", csv, "", 0)
    /\ err' = "none"
    /\ events' = <<>>
    /\ ret' = [type |-> "DataFrame", table |-> non_numeric_data(files[csv]),
               report |-> NoReport]
    /\ UNCHANGED <<files, use_inf_as_na, reports>>

\* create_subplots(data, plot_type, num_cols) on the table loaded from csv.
CreateSubplots(csv, plot_type, num_cols) ==
    /\ csv \in DOMAIN files
    /\ call' = Call("create_subplots", csv, plot_type, num_cols)
    /\ err' = create_subplots(files[csv], plot_type, num_cols).err
    /\ events' = create_subplots(files[csv], plot_type, num_cols).events
    /\ ret' = NoRet
    /\ UNCHANGED <<files, use_inf_as_na, reports>>

\* create_heatmap(data) on the table loaded from csv.
CreateHeatmap(csv) ==
    /\ csv \in DOMAIN files
    /\ call' = Call("create_heatmap", csv, "", 0)
    /\ err' = create_heatmap(files[csv]).err
    /\ events' = create_heatmap(files[csv]).events
    /\ ret' = NoRet
    /\ UNCHANGED <<files, use_inf_as_na, reports>>

\* stats_report(csv).
StatsReport(csv) ==
    LET r == stats_report(csv, use_inf_as_na)
    IN /\ call' = Call("stats_report", csv, "", 0)
       /\ err' = r.err
       /\ events' = <<>>
       /\ ret' = IF r.err = "none"
                 THEN [type |-> "DataFrame", table |-> NoTable, report |-> r.report]
                 ELSE NoRet
       /\ reports' = IF r.err = "none" THEN reports \cup {r.report} ELSE reports
       /\ UNCHANGED <<files, use_inf_as_na>>

\* The value pd.set_option('mode.use_inf_as_na', True) leaves in the option;
\* nothing sets it back when the with block ends.
OptionAfterAnalysis(before) == TRUE

\* initial_analysis(csv, num_cols).
InitialAnalysis(csv, num_cols) ==
    /\ call' = Call("initial_analysis", csv, "", num_cols)
    /\ use_inf_as_na' = OptionAfterAnalysis(use_inf_as_na)
    /\ err' = initial_analysis(csv, num_cols).err
    /\ events' = initial_analysis(csv, num_cols).events
    /\ ret' = NoRet
    /\ UNCHANGED <<files, reports>>

Next ==
    \/ \E csv \in Paths : NumericData(csv)
    \/ \E csv \in Paths : NonNumericData(csv)
    \/ \E csv \in Paths, plot_type \in PlotTypes, num_cols \in NumColsRange :
          CreateSubplots(csv, plot_type, num_cols)
    \/ \E csv \in Paths : CreateHeatmap(csv)
    \/ \E csv \in Paths : StatsReport(csv)
    \/ \E csv \in Paths, num_cols \in NumColsRange : InitialAnalysis(csv, num_cols)

Spec == Init /\ [][Next]_vars

\* ================================================================ claims
\* The table in the CSV file, its numeric columns (dtype int64 or float64)
\* and their number.
TheTable == files["data.csv"]

NumericIdx == {j \in 1..Len(TheTable.cols) : TheTable.cols[j].dtype \in {"int64", "float64"}}

NumNumeric == Cardinality(NumericIdx)

\* The name of the i-th numeric column, i from 0.
NumericName(i) ==
    TheTable.cols[CHOOSE j \in NumericIdx :
                      Cardinality({m \in NumericIdx : m < j}) = i].name

EventsOf(e) == SelectSeq(events, LAMBDA x : x.e = e)

EventsOfKind(kind) == SelectSeq(events, LAMBDA x : x.kind = kind)

CellsOf(e) == {<<events[i].row, events[i].col>> : i \in {m \in 1..Len(events) : events[m].e = e}}

\* ceil(n/w) for n >= 0, w >= 1: the least r with r*w >= n.
Ceil(n, w) == CHOOSE r \in 0..n : r * w >= n /\ \A q \in 0..n : q * w >= n => r <= q

\* C1: any two stats_report calls on the same CSV table return the same
\* report, whatever calls ran before or between them.
C1_SameReport == Cardinality(reports) <= 1

C3_OneChartPerColumn ==
    (call.op = "create_subplots" /\ call.num_cols >= 1 /\ NumNumeric >= 1) =>
        /\ err = "none"
        /\ Len(EventsOf("plot")) = NumNumeric
        /\ Len(EventsOf("title")) = NumNumeric

\* C4: with num_cols <= 0, create_subplots and initial_analysis fail with
\* InvalidConfigError before any figure is created.
C4_InvalidConfig ==
    (/\ call.op \in {"create_subplots", "initial_analysis"}
     /\ call.csv = "data.csv"
     /\ call.num_cols <= 0) =>
        /\ err = "InvalidConfigError"
        /\ EventsOf("figure") = <<>>

\* C5: with no numeric column and a positive num_cols, create_subplots
\* returns without raising, having charted and hidden no cell.
C5_EmptyGrid ==
    (call.op = "create_subplots" /\ call.num_cols >= 1 /\ NumNumeric = 0) =>
        /\ err = "none"
        /\ EventsOf("plot") = <<>>
        /\ EventsOf("off") = <<>>

\* C6: create_heatmap fails with InsufficientDataError exactly when the
\* table has no numeric column; otherwise it returns and renders the matrix
\* of exactly the numeric columns.
C6_HeatmapError ==
    call.op = "create_heatmap" =>
        /\ (err = "InsufficientDataError") <=> (NumNumeric = 0)
        /\ NumNumeric >= 1 =>
              /\ err = "none"
              /\ Len(EventsOf("label")) = NumNumeric
              /\ \A i \in 1..NumNumeric : EventsOf("label")[i].column = NumericName(i - 1)

\* C7: initial_analysis reads the CSV, then renders the box-plot grid, the
\* histogram grid and the heatmap in this order, each from the loaded table
\* and both grids with the call's num_cols; a stage runs only if every
\* earlier one returned; the first error is the call's error and nothing
\* runs after it; a failing load leaves no chart and no printed output.
C7_StageOrder ==
    call.op = "initial_analysis" =>
        LET w == call.num_cols
            pr == <<Event("print", "", "", 0, 0)>>
            read == <<Event("read_csv", "load", call.csv, 0, 0)>>
            box == create_subplots(TheTable, "boxplot", w)
            hist == create_subplots(TheTable, "histplot", w)
            heat == create_heatmap(TheTable)
        IN /\ Len(EventsOf("read_csv")) = 1 /\ events[1].e = "read_csv"
           /\ call.csv = "missing.csv" => err = "FileNotFoundError" /\ events = read
           /\ call.csv = "data.csv" =>
                 /\ EventsOfKind("boxplot") = box.events
                 /\ EventsOfKind("histplot") =
                       (IF box.err = "none" THEN hist.events ELSE <<>>)
                 /\ EventsOfKind("heatmap") =
                       (IF box.err = "none" /\ hist.err = "none"
                        THEN heat.events ELSE <<>>)
                 /\ err = (IF box.err # "none" THEN box.err
                           ELSE IF hist.err # "none" THEN hist.err
                           ELSE heat.err)
                 /\ events = read \o pr \o EventsOfKind("boxplot")
                                \o (IF box.err = "none" THEN pr ELSE <<>>)
                                \o EventsOfKind("histplot")
                                \o (IF box.err = "none" /\ hist.err = "none"
                                    THEN pr ELSE <<>>)
                                \o EventsOfKind("heatmap")

\* C7 witness: a run of initial_analysis in which all four stages ran and
\* the heatmap was shown last.
C7_Witness ==
    /\ call.op = "initial_analysis" /\ err = "none"
    /\ EventsOf("show") = <<Event("show", "boxplot", "", 0, 0),
                            Event("show", "histplot", "", 0, 0),
                            Event("show", "heatmap", "", 0, 0)>>
    /\ events[Len(events)] = Event("show", "heatmap", "", 0, 0)

\* C8: the report of stats_report has one row per column of the table, in
\* the table's column order, and every row's entry_count is the table's row
\* count.
C8_RowPerColumn ==
    (call.op = "stats_report" /\ err = "none") =>
        /\ Len(ret.report.rows) = Len(TheTable.cols)
        /\ \A j \in 1..Len(TheTable.cols) :
              /\ ret.report.rows[j].name = TheTable.cols[j].name
              /\ ret.report.rows[j].entry_count = TheTable.nrows

\* C8 witness: a report on a table of two rows with a column whose values are
\* all missing and a non-numeric column.
C8_Witness ==
    /\ call.op = "stats_report" /\ err = "none"
    /\ TheTable.nrows = 2
    /\ \E j \in 1..Len(TheTable.cols) :
          /\ \A i \in 1..2 : TheTable.cols[j].vals[i] = NaN
          /\ ret.report.rows[j].entry_count = 2
    /\ \E j \in 1..Len(TheTable.cols) : TheTable.cols[j].dtype = "object"

\* C9: the report of stats_report has exactly the fields entry_count,
\* data_type, null_count, mean, std, min, 25%, 50%, 75%, max, and the seven
\* statistics are null in the row of every non-numeric column.
C9_ReportFields ==
    (call.op = "stats_report" /\ err = "none") =>
        /\ ret.report.fields = <<"entry_count", "data_type", "null_count", "mean",
                                 "std", "min", "25%", "50%", "75%", "max">>
        /\ \A j \in 1..Len(TheTable.cols) :
              j \notin NumericIdx =>
                  \A f \in DOMAIN ret.report.rows[j].stats :
                      ret.report.rows[j].stats[f].k = "nan"

\* C10: numeric_data and non_numeric_data partition the table's columns: no
\* column in both, every column in one, each part in the table's order and
\* with the table's row count; the numeric part holds exactly the int64 and
\* float64 columns, the columns create_subplots selects.
C10_Partition ==
    call.op \in {"numeric_data", "non_numeric_data"} =>
        LET num == IF call.op = "numeric_data" THEN ret.table
                   ELSE numeric_data(TheTable)
            non == IF call.op = "non_numeric_data" THEN ret.table
                   ELSE non_numeric_data(TheTable)
            names(cs) == {cs[j].name : j \in 1..Len(cs)}
            inOrder(cs) == cs = SelectSeq(TheTable.cols, LAMBDA c : c.name \in names(cs))
        IN /\ err = "none"
           /\ names(num.cols) \cap names(non.cols) = {}
           /\ names(num.cols) \cup names(non.cols) = names(TheTable.cols)
           /\ Len(num.cols) + Len(non.cols) = Len(TheTable.cols)
           /\ inOrder(num.cols) /\ inOrder(non.cols)
           /\ num.nrows = TheTable.nrows /\ non.nrows = TheTable.nrows
           /\ names(num.cols) = {TheTable.cols[j].name : j \in NumericIdx}
           /\ names(num.cols) = names(numeric_columns(TheTable))

\* C10 witness: numeric_data returned the numeric part of a table that has
\* both numeric and non-numeric columns.
C10_Witness ==
    /\ call.op = "numeric_data"
    /\ ret.table.cols # <<>>
    /\ Len(ret.table.cols) < Len(TheTable.cols)

====
